---- MODULE Spec2Model ----
(***************************************************************************)
(* Buffer pool manager with a clock replacer (BusTub, 15-445 Fall 2019).   *)
(*                                                                         *)
(* The buffer pool's operations are modelled statement group by statement  *)
(* group: a thread's position inside an operation is th[t].pc, the pool    *)
(* latch (latch_) and each frame's write latch are explicit, so that the   *)
(* windows in which an operation has released latch_ but still writes the  *)
(* frame are states of the model.                                          *)
(*                                                                         *)
(*   Spec     client threads call operations concurrently                  *)
(*   SeqSpec  operations never overlap (one call runs to its return        *)
(*            before the next is made)                                     *)
(***************************************************************************)
EXTENDS Integers, Naturals, Sequences, FiniteSets, TLC

\* ------------------------------------------------------------------ bounds
PoolSize == 2
MaxPages == 3
MaxPin == 2
MaxData == 1
MaxCalls == 4
MaxSeqCalls == 9
MaxKey == 2
MaxBlockCalls == 2
NumPages == 3

\* --------------------------------------------------------------- constants
INVALID_PAGE_ID == -1

Frames == 0 .. (PoolSize - 1)
Pages == 0 .. (MaxPages - 1)
Data == 0 .. MaxData
Threads == {"t1", "t2"}

\* "no frame": find() == end() in page_table_, a null Page*.
NoFrame == -1
\* "no thread": a latch nobody holds.
NoThread == "none"
\* values of expect[p] that are not bytes
NoExpect == MaxData + 1
Fresh == MaxData + 2

VARIABLES
    \* Page (one per frame)
    page_id, pin_count, is_dirty, data,
    \* BufferPoolManager
    page_table, free_list, latch, wlatch,
    \* ClockReplacer
    clock, hand, size,
    \* DiskManager
    disk, next_page_id,
    \* threads: position, arguments, locals and return value of the running call
    th,
    \* pins a client thread was handed: a set of <<page id, frame, how>>, how being
    \* "new" (NewPage), "miss" (FetchPage read the page in), "hit" (FetchPage found
    \* it) or "hit_loading" (found while another thread's FetchPage was reading it in)
    held,
    \* TRUE when client threads may call concurrently
    overlap,
    \* a call hit undefined behaviour (dereferenced page_table_.end())
    ub,
    \* what page p is expected to hold (tracked when calls do not overlap): Fresh
    \* when NewPage made p and no client has written to it since; the bytes p had
    \* when it was last unpinned dirty, when no client has written to it since;
    \* NoExpect otherwise
    expect,
    \* the last call made on the ClockReplacer alone (its result and the number of
    \* slots Victim inspected)
    last,
    \* HashTableBlockPage: the bytes of occupied_ and of readable_, and array_
    occupied_, readable_, array_,
    \* threads working on the block page: position, arguments and results
    bt

vars == << page_id, pin_count, is_dirty, data, page_table, free_list, latch, wlatch,
           clock, hand, size, disk, next_page_id, th, held, overlap, ub, expect,
           last, occupied_, readable_, array_, bt >>

\* the block page
block_vars == << occupied_, readable_, array_, bt >>

\* what no operation of the buffer pool changes
env == << overlap, last, block_vars >>

pool_vars == << page_id, pin_count, is_dirty, data, page_table, free_list,
                clock, hand, size, disk, next_page_id >>

\* ---------------------------------------------------------------- helpers

\* std::unordered_map::emplace: inserts only when the key is absent.
Emplace(pt, p, f) == IF pt[p] = NoFrame THEN [pt EXCEPT ![p] = f] ELSE pt

\* std::unordered_map::erase by key: a key that is not there is a no-op.
Erase(pt, p) == IF p \in Pages THEN [pt EXCEPT ![p] = NoFrame] ELSE pt

\* Page::ResetMemory: memset(data_, 0, PAGE_SIZE)
ZeroBytes == 0

\* ----------------------------------------------------------- ClockReplacer

\* ClockReplacer::Pin on a replacer state r = [clock, hand, size]
ReplacerPin(r, f) ==
    [ clock |-> [r.clock EXCEPT ![f] = [first |-> FALSE, second |-> FALSE]],
      hand |-> r.hand,
      size |-> IF r.clock[f].first THEN r.size - 1 ELSE r.size ]

\* ClockReplacer::Unpin without the test of line 65: size grows at every Unpin.
ReplacerUnpin_AlwaysCounts(r, f) ==
    [ clock |-> [r.clock EXCEPT ![f] = [first |-> TRUE, second |-> TRUE]],
      hand |-> r.hand,
      size |-> r.size + 1 ]

\* ClockReplacer::Unpin
ReplacerUnpin(r, f) ==
    [ clock |-> [r.clock EXCEPT ![f] = [first |-> TRUE, second |-> TRUE]],
      hand |-> r.hand,
      size |-> IF r.clock[f].first THEN r.size ELSE r.size + 1 ]

\* clock.size()
ClockSize(c) == Cardinality(DOMAIN c)

\* The loop of Victim has no bound of its own: the model follows it for SweepCutoff
\* slots and then gives it up as not returning (frame NoFrame).
SweepCutoff(c) == 3 * ClockSize(c)

\* The while(true) loop of ClockReplacer::Victim, from hand position h on clock c,
\* having inspected n slots so far.
RECURSIVE Sweep(_, _, _)
Sweep(c, h, n) ==
    IF n >= SweepCutoff(c)
    THEN [ clock |-> c, hand |-> h, frame |-> NoFrame, inspected |-> n ]
    ELSE
    IF c[h].first
    THEN IF c[h].second
         THEN Sweep([c EXCEPT ![h].second = FALSE], (h + 1) % ClockSize(c), n + 1)
         ELSE [ clock |-> [c EXCEPT ![h].first = FALSE], hand |-> h,
                frame |-> h, inspected |-> n + 1 ]
    ELSE Sweep(c, (h + 1) % ClockSize(c), n + 1)

\* ClockReplacer::Victim without the second chance of lines 36-37: the first
\* present slot from the hand on is the victim, its ref bit set or not.
ReplacerVictim_IgnoresRef(r) ==
    IF r.size = 0
    THEN [ found |-> FALSE, frame |-> NoFrame, inspected |-> 0, r |-> r ]
    ELSE LET n == ClockSize(r.clock)
             k == CHOOSE j \in 0 .. (n - 1) :
                     /\ r.clock[(r.hand + j) % n].first
                     /\ \A i \in 0 .. (j - 1) : ~r.clock[(r.hand + i) % n].first
             f == (r.hand + k) % n
         IN [ found |-> TRUE, frame |-> f, inspected |-> k + 1,
              r |-> [clock |-> [r.clock EXCEPT ![f].first = FALSE], hand |-> f,
                     size |-> r.size - 1] ]

\* ClockReplacer::Victim: [found, frame, inspected] and the replacer afterwards.
ReplacerVictim(r) ==
    IF r.size = 0
    THEN [ found |-> FALSE, frame |-> NoFrame, inspected |-> 0, r |-> r ]
    ELSE LET s == Sweep(r.clock, r.hand, 0)
         IN [ found |-> TRUE, frame |-> s.frame, inspected |-> s.inspected,
              r |-> [clock |-> s.clock, hand |-> s.hand, size |-> r.size - 1] ]

Replacer == [clock |-> clock, hand |-> hand, size |-> size]

SetReplacer(r) ==
    /\ clock' = r.clock
    /\ hand' = r.hand
    /\ size' = r.size

\* ------------------------------------------------------------ thread state

Idle == [ pc |-> "idle", op |-> "none", page |-> INVALID_PAGE_ID, dirty |-> FALSE,
          new_page |-> FALSE, from_free |-> FALSE, index |-> NoFrame,
          ptr |-> NoFrame, ok |-> FALSE, out |-> INVALID_PAGE_ID, calls |-> 0,
          old_page |-> INVALID_PAGE_ID, old_dirty |-> FALSE, old_bytes |-> ZeroBytes ]

AllIdle == \A t \in Threads : th[t].pc = "idle"

\* Who may make a call now: when calls overlap, any idle thread that has calls left;
\* when they do not, thread t1 once nothing is running.
MayCall(t) ==
    /\ ~ub
    /\ th[t].pc = "idle"
    /\ IF overlap THEN th[t].calls < MaxCalls
       ELSE t = "t1" /\ AllIdle /\ th[t].calls < MaxSeqCalls

\* A call's frame: arguments in, no result yet; the thread's calls are counted.
Call(t, op, p, d) ==
    [ Idle EXCEPT !.op = op, !.page = p, !.dirty = d,
                  !.calls = th[t].calls + 1 ]

\* The call returns with the frame r (its results in it). When calls overlap, what a
\* thread keeps of a call is the pin it was handed (held), not the frame.
Return(t, r) ==
    th' = [th EXCEPT ![t] = IF overlap THEN [Idle EXCEPT !.calls = r.calls]
                            ELSE [r EXCEPT !.pc = "idle"]]

\* ------------------------------------------------------- HashTableBlockPage

\* The slots the model works on: the first and the last bit of byte 0 of the bit
\* maps and the first bit of byte 1.
Slots == {0, 7, 8}

\* The bytes of occupied_ and readable_ that hold the bits of those slots.
BitmapBytes == {i \div 8 : i \in Slots}

Keys == 1 .. MaxKey
Values == 1 .. MaxKey

\* array_ of a page that was never written: zero bytes.
ZeroPair == << 0, 0 >>

RECURSIVE Pow2(_)
Pow2(n) == IF n = 0 THEN 1 ELSE 2 * Pow2(n - 1)

\* N_TH_BIT_MASK[bit_offset]: 0b10000000 >> bit_offset
N_TH_BIT_MASK(bit_offset) == Pow2(7 - bit_offset)

\* byte & mask, for a mask of one bit
BitAnd(byte, mask) == IF (byte \div mask) % 2 = 1 THEN mask ELSE 0

\* GET_N_TH_BIT(char_arr, bucket_ind)
GET_N_TH_BIT(char_arr, bucket_ind) ==
    LET arr_index == bucket_ind \div 8
        bit_offset == bucket_ind % 8
    IN BitAnd(char_arr[arr_index], N_TH_BIT_MASK(bit_offset)) # 0

\* SET_N_TH_BIT(char_arr, bucket_ind): char_arr[arr_index] |= mask, one atomic
\* read-modify-write of the byte; the array afterwards.
SET_N_TH_BIT(char_arr, bucket_ind) ==
    LET arr_index == bucket_ind \div 8
        mask == N_TH_BIT_MASK(bucket_ind % 8)
    IN [char_arr EXCEPT ![arr_index] = @ - BitAnd(@, mask) + mask]

\* UNSET_N_TH_BIT with the mask left out: char_arr[arr_index] = 0
UNSET_N_TH_BIT_WholeByte(char_arr, bucket_ind) ==
    LET arr_index == bucket_ind \div 8
    IN [char_arr EXCEPT ![arr_index] = 0]

\* UNSET_N_TH_BIT(char_arr, bucket_ind): char_arr[arr_index] &= ~mask
UNSET_N_TH_BIT(char_arr, bucket_ind) ==
    LET arr_index == bucket_ind \div 8
        mask == N_TH_BIT_MASK(bucket_ind % 8)
    IN [char_arr EXCEPT ![arr_index] = @ - BitAnd(@, mask)]

IsOccupied(bucket_ind) == GET_N_TH_BIT(occupied_, bucket_ind)

IsReadable(bucket_ind) == GET_N_TH_BIT(readable_, bucket_ind)

KeyAt(bucket_ind) == array_[bucket_ind][1]

ValueAt(bucket_ind) == array_[bucket_ind][2]

\* A thread that is in no call on the block page. stale: a Remove of the call's
\* slot came after the call began; fresh: the slot had never been used when the
\* call began.
BlockIdle == [ pc |-> "idle", op |-> "none", slot |-> 0, key |-> 0, value |-> 0,
              ok |-> FALSE, readable |-> FALSE, stale |-> FALSE, fresh |-> FALSE,
              calls |-> 0 ]

\* The block page is a zeroed frame.
InitBlock ==
    /\ occupied_ = [b \in BitmapBytes |-> 0]
    /\ readable_ = [b \in BitmapBytes |-> 0]
    /\ array_ = [i \in Slots |-> ZeroPair]
    /\ bt = [t \in Threads |-> BlockIdle]

\* ------------------------------------------------------------------- Init

InitFrames ==
    /\ page_id = [f \in Frames |-> INVALID_PAGE_ID]
    /\ pin_count = [f \in Frames |-> 0]
    /\ is_dirty = [f \in Frames |-> FALSE]
    /\ data = [f \in Frames |-> ZeroBytes]

InitPool ==
    /\ page_table = [p \in Pages |-> NoFrame]
    /\ free_list = [i \in 1 .. PoolSize |-> i - 1]
    /\ latch = NoThread
    /\ wlatch = [f \in Frames |-> NoThread]

InitReplacer ==
    /\ clock = [f \in Frames |-> [first |-> FALSE, second |-> FALSE]]
    /\ hand = 0
    /\ size = 0

InitDisk ==
    /\ disk = [p \in Pages |-> ZeroBytes]
    /\ next_page_id = 0

InitClients ==
    /\ th = [t \in Threads |-> Idle]
    /\ held = [t \in Threads |-> {}]
    /\ ub = FALSE
    /\ expect = [p \in Pages |-> NoExpect]

\* No call has been made on the replacer alone.
NoCall == [ op |-> "none", frame |-> NoFrame, found |-> FALSE, inspected |-> 0 ]

InitLast == last = NoCall

Init ==
    /\ InitFrames /\ InitPool /\ InitReplacer /\ InitDisk /\ InitClients
    /\ InitLast /\ InitBlock
    /\ overlap = TRUE

SeqInit ==
    /\ InitFrames /\ InitPool /\ InitReplacer /\ InitDisk /\ InitClients
    /\ InitLast /\ InitBlock
    /\ overlap = FALSE


\* ------------------------------------------------------- client interface

\* Page ids a client may ask for: the ids a NewPage has handed out, which leaves
\* out the id of a NewPage that has not returned yet.
ValidPage(p) ==
    /\ p \in Pages /\ p < next_page_id
    /\ \A u \in Threads : ~(th[u].pc # "idle" /\ th[u].op = "NewPage" /\ th[u].page = p)

\* The caller is handed a pinned frame for page p.
Hand(t, p, f, how) ==
    held' = IF overlap THEN [held EXCEPT ![t] = @ \cup {<<p, f, how>>}] ELSE held

\* Another thread's FetchPage(p) is reading p in.
Loading(t, p) ==
    \E u \in Threads \ {t} :
        th[u].pc # "idle" /\ th[u].op = "FetchPage" /\ th[u].page = p

HoldsPage(t, p) == \E h \in held[t] : h[1] = p

\* --------------------------------------------- ReplaceAndUpdate (38 - 80)

\* Lines 45-49 and 56-60, under latch_: take a frame from the free list, else from
\* the replacer, and move the page table entry. The thread goes on holding latch_.
\* old_page, old_dirty and old_bytes remember the victim as it was found.
ReplaceAndUpdate_Select(t, call, new_page_id, new_page) ==
    IF free_list # << >>
    THEN LET index == Head(free_list)
         IN /\ free_list' = Tail(free_list)
            /\ page_table' = Emplace(page_table, new_page_id, index)
            /\ th' = [th EXCEPT ![t] = [call EXCEPT !.pc = "rau_wlatch", !.index = index,
                                           !.new_page = new_page, !.from_free = TRUE]]
            /\ UNCHANGED << clock, hand, size >>
    ELSE LET v == ReplacerVictim(Replacer)
             index == v.frame
             old == page_id[index]
         IN /\ page_table' = Emplace(Erase(page_table, old), new_page_id, index)
            /\ SetReplacer(ReplacerPin(v.r, index))
            /\ th' = [th EXCEPT ![t] = [call EXCEPT !.pc = "rau_wlatch", !.index = index,
                                           !.new_page = new_page, !.from_free = FALSE,
                                           !.old_page = old,
                                           !.old_dirty = is_dirty[index],
                                           !.old_bytes = data[index]]]
            /\ UNCHANGED free_list

\* Lines 50-51 and 61-62: page->WLatch(); u_lock->unlock();
RAU_WLatch(t) ==
    /\ ~ub
    /\ th[t].pc = "rau_wlatch"
    /\ wlatch[th[t].index] = NoThread
    /\ wlatch' = [wlatch EXCEPT ![th[t].index] = t]
    /\ latch' = NoThread
    /\ th' = [th EXCEPT ![t].pc = IF th[t].from_free THEN "rau_load" ELSE "rau_wb"]
    /\ UNCHANGED << pool_vars, held, env, ub, expect >>

\* DiskManager::WritePage(p, bytes) on the disk d.
WritePage(d, p, bytes) == IF p \in Pages THEN [d EXCEPT ![p] = bytes] ELSE d

\* DiskManager::ReadPage(p): the bytes it fills the buffer with.
ReadPage(d, p) == d[p]

\* Lines 64-66 without the write: the dirty victim is dropped.
RAU_WriteBack_Skip(t) ==
    /\ ~ub
    /\ th[t].pc = "rau_wb"
    /\ th' = [th EXCEPT ![t].pc = "rau_load"]
    /\ UNCHANGED << pool_vars, latch, wlatch, held, env, ub, expect >>

\* Lines 64-66: if R is dirty, write it back to the disk.
RAU_WriteBack(t) ==
    /\ ~ub
    /\ th[t].pc = "rau_wb"
    /\ LET index == th[t].index
       IN disk' = IF is_dirty[index]
                  THEN WritePage(disk, page_id[index], data[index])
                  ELSE disk
    /\ th' = [th EXCEPT ![t].pc = "rau_load"]
    /\ UNCHANGED << page_id, pin_count, is_dirty, data, page_table, free_list, latch,
                    wlatch, clock, hand, size, next_page_id, held, env, ub,
                    expect >>

\* Lines 52-54 (free list) and 67-72 (replacer): read the page in, or zero the
\* frame of a new page; a new page's frame from the free list is left as it is.
RAU_Load(t) ==
    /\ ~ub
    /\ th[t].pc = "rau_load"
    /\ LET index == th[t].index
       IN data' = IF ~th[t].new_page
                  THEN [data EXCEPT ![index] = ReadPage(disk, th[t].page)]
                  ELSE IF th[t].from_free THEN data
                  ELSE [data EXCEPT ![index] = ZeroBytes]
    /\ th' = [th EXCEPT ![t].pc = "rau_page_id"]
    /\ UNCHANGED << page_id, pin_count, is_dirty, page_table, free_list, latch, wlatch,
                    clock, hand, size, disk, next_page_id, held, env, ub,
                    expect >>

\* Line 75: page->page_id_ = new_page_id;
RAU_SetPageId(t) ==
    /\ ~ub
    /\ th[t].pc = "rau_page_id"
    /\ page_id' = [page_id EXCEPT ![th[t].index] = th[t].page]
    /\ th' = [th EXCEPT ![t].pc = "rau_pin_count"]
    /\ UNCHANGED << pin_count, is_dirty, data, page_table, free_list, latch, wlatch,
                    clock, hand, size, disk, next_page_id, held, env, ub,
                    expect >>

\* Line 76: page->pin_count_ = 1;
RAU_SetPinCount(t) ==
    /\ ~ub
    /\ th[t].pc = "rau_pin_count"
    /\ pin_count' = [pin_count EXCEPT ![th[t].index] = 1]
    /\ th' = [th EXCEPT ![t].pc = "rau_is_dirty"]
    /\ UNCHANGED << page_id, is_dirty, data, page_table, free_list, latch, wlatch,
                    clock, hand, size, disk, next_page_id, held, env, ub,
                    expect >>

\* Lines 77-79: page->is_dirty_ = new_page; page->WUnlatch(); return page;
RAU_Return(t) ==
    /\ ~ub
    /\ th[t].pc = "rau_is_dirty"
    /\ is_dirty' = [is_dirty EXCEPT ![th[t].index] = th[t].new_page]
    /\ wlatch' = [wlatch EXCEPT ![th[t].index] = NoThread]
    /\ Return(t, [th[t] EXCEPT !.ptr = th[t].index])
    /\ Hand(t, th[t].page, th[t].index, IF th[t].new_page THEN "new" ELSE "miss")
    /\ UNCHANGED << page_id, pin_count, data, page_table, free_list, latch,
                    clock, hand, size, disk, next_page_id, env, ub, expect >>

\* ------------------------------------------------ FetchPageImpl (82 - 109)

\* Lines 90-103: P is in the page table: pin it and return it.
FetchPage_Hit(t, p) ==
    /\ MayCall(t) /\ latch = NoThread
    /\ ValidPage(p) /\ ~HoldsPage(t, p)
    /\ page_table[p] # NoFrame
    /\ pin_count[page_table[p]] < MaxPin
    /\ LET index == page_table[p]
           n == pin_count[index] + 1
       IN /\ pin_count' = [pin_count EXCEPT ![index] = n]
          /\ SetReplacer(IF n > 0 THEN ReplacerPin(Replacer, index) ELSE Replacer)
          /\ Return(t, [Call(t, "FetchPage", p, FALSE) EXCEPT !.ptr = index])
          /\ Hand(t, p, index, IF Loading(t, p) THEN "hit_loading" ELSE "hit")
    /\ UNCHANGED << page_id, is_dirty, data, page_table, free_list, latch, wlatch,
                    disk, next_page_id, env, ub, expect >>

\* Lines 105-107: nothing to replace: return nullptr.
FetchPage_Null(t, p) ==
    /\ MayCall(t) /\ latch = NoThread
    /\ ValidPage(p) /\ ~HoldsPage(t, p)
    /\ page_table[p] = NoFrame
    /\ free_list = << >> /\ size = 0
    /\ Return(t, [Call(t, "FetchPage", p, FALSE) EXCEPT !.ptr = NoFrame])
    /\ UNCHANGED << pool_vars, latch, wlatch, held, env, ub, expect >>

\* Line 108: return ReplaceAndUpdate(page_id, false, &lock);
FetchPage_Miss(t, p) ==
    /\ MayCall(t) /\ latch = NoThread
    /\ ValidPage(p) /\ ~HoldsPage(t, p)
    /\ page_table[p] = NoFrame
    /\ ~(free_list = << >> /\ size = 0)
    /\ ReplaceAndUpdate_Select(t, Call(t, "FetchPage", p, FALSE), p, FALSE)
    /\ latch' = t
    /\ UNCHANGED << page_id, pin_count, is_dirty, data, wlatch, disk, next_page_id,
                    held, env, ub, expect >>

\* ------------------------------------------------- NewPageImpl (149 - 163)

\* Lines 155-159 with AllocatePage called before the test: an id is used up by
\* the NewPage that returns null.
NewPage_Null_Allocates(t) ==
    /\ MayCall(t) /\ latch = NoThread
    /\ next_page_id < MaxPages
    /\ free_list = << >> /\ size = 0
    /\ next_page_id' = next_page_id + 1
    /\ Return(t, [Call(t, "NewPage", INVALID_PAGE_ID, FALSE)
                     EXCEPT !.ptr = NoFrame, !.out = INVALID_PAGE_ID])
    /\ UNCHANGED << page_id, pin_count, is_dirty, data, page_table, free_list, clock,
                    hand, size, disk, latch, wlatch, held, env, ub, expect >>

\* Lines 155-159: all the pages in the buffer pool are pinned.
NewPage_Null(t) ==
    /\ MayCall(t) /\ latch = NoThread
    /\ next_page_id < MaxPages
    /\ free_list = << >> /\ size = 0
    /\ Return(t, [Call(t, "NewPage", INVALID_PAGE_ID, FALSE)
                     EXCEPT !.ptr = NoFrame, !.out = INVALID_PAGE_ID])
    /\ UNCHANGED << pool_vars, latch, wlatch, held, env, ub, expect >>

\* Lines 160-162: AllocatePage, set the output id, ReplaceAndUpdate(id, true, &lock).
NewPage_Alloc(t) ==
    /\ MayCall(t) /\ latch = NoThread
    /\ next_page_id < MaxPages
    /\ ~(free_list = << >> /\ size = 0)
    /\ LET id == next_page_id
       IN /\ next_page_id' = id + 1
          /\ ReplaceAndUpdate_Select(t, [Call(t, "NewPage", id, FALSE) EXCEPT !.out = id],
                                     id, TRUE)
    /\ latch' = t
    /\ expect' = IF overlap THEN expect ELSE [expect EXCEPT ![next_page_id] = Fresh]
    /\ UNCHANGED << page_id, pin_count, is_dirty, data, wlatch, disk, held, env, ub >>


\* ------------------------------------------------ UnpinPageImpl (113 - 126)

\* Line 124 with = for |=: the flag is assigned.
UnpinDirty_Assign(was_dirty, is_dirty_arg) == is_dirty_arg

\* Line 124: page->is_dirty_ |= is_dirty;
UnpinDirty(was_dirty, is_dirty_arg) == was_dirty \/ is_dirty_arg

\* Lines 118-120: the pin count test that makes UnpinPage return false.
UnpinRefused(count) == count <= 0

\* Lines 121-123 without the test: every unpin puts the frame into the replacer.
UnpinReplacer_Always(r, index, n) == ReplacerUnpin(r, index)

\* Lines 121-123: the replacer after --pin_count_ left the count at n.
UnpinReplacer(r, index, n) == IF n = 0 THEN ReplacerUnpin(r, index) ELSE r

\* The caller gives up its pin on page p.
Release(t, p) ==
    held' = IF overlap THEN [held EXCEPT ![t] = {h \in @ : h[1] # p}] ELSE held

\* A caller unpins a page that is resident; when calls overlap, one it was handed.
UnpinPage(t, p, is_dirty_arg) ==
    /\ MayCall(t) /\ latch = NoThread
    /\ p \in Pages
    /\ overlap => HoldsPage(t, p)
    /\ page_table[p] # NoFrame
    /\ LET frame_index == page_table[p]
           n == pin_count[frame_index] - 1
       IN IF UnpinRefused(pin_count[frame_index])
          THEN /\ Return(t, [Call(t, "UnpinPage", p, is_dirty_arg)
                                EXCEPT !.index = frame_index, !.ok = FALSE])
               /\ UNCHANGED << pin_count, is_dirty, clock, hand, size >>
          ELSE /\ pin_count' = [pin_count EXCEPT ![frame_index] = n]
               /\ SetReplacer(UnpinReplacer(Replacer, frame_index, n))
               /\ is_dirty' = [is_dirty EXCEPT ![frame_index] =
                                  UnpinDirty(is_dirty[frame_index], is_dirty_arg)]
               /\ Return(t, [Call(t, "UnpinPage", p, is_dirty_arg)
                                EXCEPT !.index = frame_index, !.ok = TRUE])
    /\ Release(t, p)
    /\ expect' = IF ~overlap /\ is_dirty_arg /\ ~UnpinRefused(pin_count[page_table[p]])
                     /\ expect[p] # Fresh
                 THEN [expect EXCEPT ![p] = data[page_table[p]]]
                 ELSE expect
    /\ UNCHANGED << page_id, data, page_table, free_list, latch, wlatch, disk,
                    next_page_id, env, ub >>

\* Lines 115-117: the page is not in the page table: got is end(), and got->second
\* is read through it.
UnpinPage_NotResident(t, p) ==
    /\ MayCall(t) /\ latch = NoThread
    /\ p \in Pages
    /\ overlap /\ HoldsPage(t, p)
    /\ page_table[p] = NoFrame
    /\ ub' = TRUE
    /\ th' = [th EXCEPT ![t] = [Call(t, "UnpinPage", p, FALSE) EXCEPT !.pc = "undefined"]]
    /\ UNCHANGED << pool_vars, latch, wlatch, held, env, expect >>

\* ------------------------------------------------ FlushPageImpl (129 - 146)

\* Lines 131-136: the page is not in the page table.
FlushPage_NotResident(t, p) ==
    /\ MayCall(t) /\ latch = NoThread
    /\ p \in Pages
    /\ page_table[p] = NoFrame
    /\ Return(t, [Call(t, "FlushPage", p, FALSE) EXCEPT !.ok = FALSE])
    /\ UNCHANGED << pool_vars, latch, wlatch, held, env, ub, expect >>

\* Lines 131-137: the page is resident; the thread holds latch_ and goes for the
\* frame's write latch.
FlushPage_Lock(t, p) ==
    /\ MayCall(t) /\ latch = NoThread
    /\ p \in Pages
    /\ page_table[p] # NoFrame
    /\ latch' = t
    /\ th' = [th EXCEPT ![t] = [Call(t, "FlushPage", p, FALSE)
                                   EXCEPT !.pc = "flush_wlatch", !.index = page_table[p]]]
    /\ UNCHANGED << pool_vars, wlatch, held, env, ub, expect >>

\* Lines 138-139 without lock.unlock(): latch_ is kept across the write.
FlushPage_WLatch_KeepsLatch(t) ==
    /\ ~ub
    /\ th[t].pc = "flush_wlatch"
    /\ wlatch[th[t].index] = NoThread
    /\ wlatch' = [wlatch EXCEPT ![th[t].index] = t]
    /\ th' = [th EXCEPT ![t].pc = "flush_write"]
    /\ UNCHANGED << pool_vars, latch, held, env, ub, expect >>

\* Lines 138-139: page->WLatch(); lock.unlock();
FlushPage_WLatch(t) ==
    /\ ~ub
    /\ th[t].pc = "flush_wlatch"
    /\ wlatch[th[t].index] = NoThread
    /\ wlatch' = [wlatch EXCEPT ![th[t].index] = t]
    /\ latch' = NoThread
    /\ th' = [th EXCEPT ![t].pc = "flush_write"]
    /\ UNCHANGED << pool_vars, held, env, ub, expect >>

\* Line 140 without the dirty test: FlushPage writes every valid frame.
FlushNeeded_Always(index) == page_id[index] # INVALID_PAGE_ID

\* Line 140: the test that decides whether FlushPage writes the frame.
FlushNeeded(index) == page_id[index] # INVALID_PAGE_ID /\ is_dirty[index]

\* Lines 140-145: write a dirty frame and clear its flag; WUnlatch; return true.
FlushPage_Write(t) ==
    /\ ~ub
    /\ th[t].pc = "flush_write"
    /\ LET index == th[t].index
       IN IF FlushNeeded(index)
          THEN /\ is_dirty' = [is_dirty EXCEPT ![index] = FALSE]
               /\ disk' = WritePage(disk, page_id[index], data[index])
          ELSE UNCHANGED << is_dirty, disk >>
    /\ wlatch' = [wlatch EXCEPT ![th[t].index] = NoThread]
    /\ Return(t, [th[t] EXCEPT !.ok = TRUE])
    /\ UNCHANGED << page_id, pin_count, data, page_table, free_list, latch, clock, hand,
                    size, next_page_id, held, env, ub, expect >>

\* ----------------------------------------------- DeletePageImpl (165 - 201)

\* Lines 171-177: P does not exist: DeallocatePage and return true.
DeletePage_NotResident(t, p) ==
    /\ MayCall(t) /\ latch = NoThread
    /\ p \in Pages
    /\ page_table[p] = NoFrame
    /\ Return(t, [Call(t, "DeletePage", p, FALSE) EXCEPT !.ok = TRUE])
    /\ UNCHANGED << pool_vars, latch, wlatch, held, env, ub, expect >>

\* Lines 171-179: P exists; the thread holds latch_ and goes for the frame's latch.
DeletePage_Lock(t, p) ==
    /\ MayCall(t) /\ latch = NoThread
    /\ p \in Pages
    /\ page_table[p] # NoFrame
    /\ latch' = t
    /\ th' = [th EXCEPT ![t] = [Call(t, "DeletePage", p, FALSE)
                                   EXCEPT !.pc = "delete_wlatch", !.index = page_table[p]]]
    /\ UNCHANGED << pool_vars, wlatch, held, env, ub, expect >>

\* Line 182 without the test: a pinned page is deleted too.
DeleteRefused_Never(count) == FALSE

\* Line 182: the pin count test that makes DeletePage refuse.
DeleteRefused(count) == count > 0

\* Lines 180-186: WLatch; the page is pinned: unlock, WUnlatch, return false.
DeletePage_Pinned(t) ==
    /\ ~ub
    /\ th[t].pc = "delete_wlatch"
    /\ wlatch[th[t].index] = NoThread
    /\ DeleteRefused(pin_count[th[t].index])
    /\ latch' = NoThread
    /\ Return(t, [th[t] EXCEPT !.ok = FALSE])
    /\ UNCHANGED << pool_vars, wlatch, held, env, ub, expect >>

\* Lines 180, 188-191: WLatch; take P out of the replacer and the page table and
\* put its frame on the free list; unlock.
DeletePage_Remove(t) ==
    /\ ~ub
    /\ th[t].pc = "delete_wlatch"
    /\ wlatch[th[t].index] = NoThread
    /\ ~DeleteRefused(pin_count[th[t].index])
    /\ LET index == th[t].index
       IN /\ wlatch' = [wlatch EXCEPT ![index] = t]
          /\ SetReplacer(ReplacerPin(Replacer, index))
          /\ page_table' = Erase(page_table, th[t].page)
          /\ free_list' = Append(free_list, index)
    /\ latch' = NoThread
    /\ th' = [th EXCEPT ![t].pc = "delete_reset"]
    /\ expect' = IF overlap THEN expect ELSE [expect EXCEPT ![th[t].page] = NoExpect]
    /\ UNCHANGED << page_id, pin_count, is_dirty, data, disk, next_page_id, held,
                    env, ub >>

\* Lines 194-195 without ResetMemory: the frame keeps the deleted page's bytes.
DeletePage_Reset_Skip(t) ==
    /\ ~ub
    /\ th[t].pc = "delete_reset"
    /\ th' = [th EXCEPT ![t].pc = "delete_meta"]
    /\ UNCHANGED << pool_vars, latch, wlatch, held, env, ub, expect >>

\* Lines 194-195: DeallocatePage (nothing on disk changes); page->ResetMemory();
DeletePage_Reset(t) ==
    /\ ~ub
    /\ th[t].pc = "delete_reset"
    /\ data' = [data EXCEPT ![th[t].index] = ZeroBytes]
    /\ th' = [th EXCEPT ![t].pc = "delete_meta"]
    /\ UNCHANGED << page_id, pin_count, is_dirty, page_table, free_list, latch, wlatch,
                    clock, hand, size, disk, next_page_id, held, env, ub,
                    expect >>

\* Line 200: what DeletePage returns once it has deleted the page.
DeletedResult == FALSE

\* Lines 196-200: reset the metadata, WUnlatch, return.
DeletePage_Return(t) ==
    /\ ~ub
    /\ th[t].pc = "delete_meta"
    /\ page_id' = [page_id EXCEPT ![th[t].index] = INVALID_PAGE_ID]
    /\ is_dirty' = [is_dirty EXCEPT ![th[t].index] = FALSE]
    /\ wlatch' = [wlatch EXCEPT ![th[t].index] = NoThread]
    /\ Return(t, [th[t] EXCEPT !.ok = DeletedResult])
    /\ UNCHANGED << pin_count, data, page_table, free_list, latch, clock, hand, size,
                    disk, next_page_id, held, env, ub, expect >>

\* -------------------------------------------- FlushAllPagesImpl (204 - 213)

\* Line 205: take latch_ for the whole walk.
FlushAll_Lock(t) ==
    /\ MayCall(t) /\ latch = NoThread
    /\ latch' = t
    /\ th' = [th EXCEPT ![t] = [Call(t, "FlushAllPages", INVALID_PAGE_ID, FALSE)
                                   EXCEPT !.pc = "flush_all", !.index = 0]]
    /\ UNCHANGED << pool_vars, wlatch, held, env, ub, expect >>

\* Lines 206-212: one turn of the loop, on frame i = th[t].index.
FlushAll_Step(t) ==
    /\ ~ub
    /\ th[t].pc = "flush_all"
    /\ th[t].index < PoolSize
    /\ LET i == th[t].index
       IN IF page_id[i] # INVALID_PAGE_ID /\ is_dirty[i]
          THEN /\ disk' = WritePage(disk, page_id[i], data[i])
               /\ is_dirty' = [is_dirty EXCEPT ![i] = FALSE]
          ELSE UNCHANGED << disk, is_dirty >>
    /\ th' = [th EXCEPT ![t].index = @ + 1]
    /\ UNCHANGED << page_id, pin_count, data, page_table, free_list, latch, wlatch,
                    clock, hand, size, next_page_id, held, env, ub, expect >>

\* Line 213: the loop is over; latch_ is released on return.
FlushAll_Return(t) ==
    /\ ~ub
    /\ th[t].pc = "flush_all"
    /\ ~(th[t].index < PoolSize)
    /\ latch' = NoThread
    /\ Return(t, th[t])
    /\ UNCHANGED << pool_vars, wlatch, held, env, ub, expect >>

\* ------------------------------------------------------------- the client

\* A client that holds a pin writes bytes into the frame (under the frame's write
\* latch). When calls do not overlap the pin holders are the frame's pin count.
Write(t, f, bytes) ==
    /\ MayCall(t)
    /\ wlatch[f] = NoThread
    /\ bytes # data[f]
    /\ IF overlap
       THEN \E h \in held[t] : h[2] = f
       ELSE page_id[f] \in Pages /\ pin_count[f] > 0
    /\ data' = [data EXCEPT ![f] = bytes]
    /\ Return(t, [Call(t, "Write", page_id[f], FALSE) EXCEPT !.index = f])
    /\ expect' = IF overlap \/ page_id[f] \notin Pages THEN expect
                 ELSE [expect EXCEPT ![page_id[f]] = NoExpect]
    /\ UNCHANGED << page_id, pin_count, is_dirty, page_table, free_list, latch, wlatch,
                    clock, hand, size, disk, next_page_id, held, env, ub >>

\* ------------------------------------------------------------------- Next

\* The calls and steps of a client that unpins only resident pages.
SeqNext ==
    \E t \in Threads :
        \/ \E p \in Pages : FetchPage_Hit(t, p)
        \/ \E p \in Pages : FetchPage_Null(t, p)
        \/ \E p \in Pages : FetchPage_Miss(t, p)
        \/ NewPage_Null(t)
        \/ NewPage_Alloc(t)
        \/ RAU_WLatch(t)
        \/ RAU_WriteBack(t)
        \/ RAU_Load(t)
        \/ RAU_SetPageId(t)
        \/ RAU_SetPinCount(t)
        \/ RAU_Return(t)
        \/ \E p \in Pages, d \in BOOLEAN : UnpinPage(t, p, d)
        \/ \E p \in Pages : FlushPage_NotResident(t, p)
        \/ \E p \in Pages : FlushPage_Lock(t, p)
        \/ FlushPage_WLatch(t)
        \/ FlushPage_Write(t)
        \/ \E p \in Pages : DeletePage_NotResident(t, p)
        \/ \E p \in Pages : DeletePage_Lock(t, p)
        \/ DeletePage_Pinned(t)
        \/ DeletePage_Remove(t)
        \/ DeletePage_Reset(t)
        \/ DeletePage_Return(t)
        \/ FlushAll_Lock(t)
        \/ FlushAll_Step(t)
        \/ FlushAll_Return(t)
        \/ \E f \in Frames, bytes \in Data : Write(t, f, bytes)

Next ==
    \/ SeqNext
    \/ \E t \in Threads, p \in Pages : UnpinPage_NotResident(t, p)

Spec == Init /\ [][Next]_vars

SeqSpec == SeqInit /\ [][SeqNext]_vars

\* The calls that pin, unpin and delete pages, overlapping: FetchPage, NewPage,
\* UnpinPage and DeletePage, with no flush and no write into a frame.
PinNext ==
    \E t \in Threads :
        \/ \E p \in Pages : FetchPage_Hit(t, p)
        \/ \E p \in Pages : FetchPage_Null(t, p)
        \/ \E p \in Pages : FetchPage_Miss(t, p)
        \/ NewPage_Null(t)
        \/ NewPage_Alloc(t)
        \/ RAU_WLatch(t)
        \/ RAU_WriteBack(t)
        \/ RAU_Load(t)
        \/ RAU_SetPageId(t)
        \/ RAU_SetPinCount(t)
        \/ RAU_Return(t)
        \/ \E p \in Pages, d \in BOOLEAN : UnpinPage(t, p, d)
        \/ \E p \in Pages : UnpinPage_NotResident(t, p)
        \/ \E p \in Pages : DeletePage_NotResident(t, p)
        \/ \E p \in Pages : DeletePage_Lock(t, p)
        \/ DeletePage_Pinned(t)
        \/ DeletePage_Remove(t)
        \/ DeletePage_Reset(t)
        \/ DeletePage_Return(t)

PinSpec == Init /\ [][PinNext]_vars

\* ------------------------------------------- the ClockReplacer on its own

\* what a call on the replacer alone leaves as it is
bpm_vars == << page_id, pin_count, is_dirty, data, page_table, free_list, latch, wlatch,
              disk, next_page_id, th, held, overlap, ub, expect, block_vars >>

\* ClockReplacer::Victim(&frame_id)
Rep_Victim ==
    LET v == ReplacerVictim(Replacer)
    IN /\ SetReplacer(v.r)
       /\ last' = [ op |-> "Victim", frame |-> v.frame, found |-> v.found,
                    inspected |-> v.inspected ]
       /\ UNCHANGED bpm_vars

\* ClockReplacer::Pin(frame_id)
Rep_Pin(f) ==
    /\ SetReplacer(ReplacerPin(Replacer, f))
    /\ last' = [ op |-> "Pin", frame |-> f, found |-> FALSE, inspected |-> 0 ]
    /\ UNCHANGED bpm_vars

\* ClockReplacer::Unpin(frame_id)
Rep_Unpin(f) ==
    /\ SetReplacer(ReplacerUnpin(Replacer, f))
    /\ last' = [ op |-> "Unpin", frame |-> f, found |-> FALSE, inspected |-> 0 ]
    /\ UNCHANGED bpm_vars

\* ClockReplacer::Size(): the count comes back in inspected's place as found = FALSE,
\* frame = size.
Rep_Size ==
    /\ last' = [ op |-> "Size", frame |-> size, found |-> FALSE, inspected |-> 0 ]
    /\ UNCHANGED << clock, hand, size, bpm_vars >>

RepNext ==
    \/ Rep_Victim
    \/ \E f \in DOMAIN clock : Rep_Pin(f)
    \/ \E f \in DOMAIN clock : Rep_Unpin(f)
    \/ Rep_Size

\* ClockReplacer(NumPages), with nothing else in use.
RepInit ==
    /\ InitFrames /\ InitPool /\ InitDisk /\ InitClients /\ InitLast /\ InitBlock
    /\ overlap = FALSE
    /\ clock = [f \in 0 .. (NumPages - 1) |-> [first |-> FALSE, second |-> FALSE]]
    /\ hand = 0
    /\ size = 0

\* A client of the replacer calling Victim, Pin, Unpin and Size in any order.
RepSpec == RepInit /\ [][RepNext]_vars


\* ------------------------------------------- HashTableBlockPage operations

\* what a call on the block page leaves as it is
not_block_vars == << page_id, pin_count, is_dirty, data, page_table, free_list, latch,
                    wlatch, clock, hand, size, disk, next_page_id, th, held, overlap,
                    ub, expect, last >>

\* Who may make a call on the block page: when calls overlap, any thread that is in
\* no call and has calls left; when they do not, thread t1 once nothing is running.
BlockMayCall(t) ==
    /\ bt[t].pc = "idle"
    /\ IF overlap THEN bt[t].calls < MaxBlockCalls
       ELSE t = "t1" /\ \A u \in Threads : bt[u].pc = "idle"

\* A call's frame; calls are counted when they overlap.
BlockCall(t, op, i, k, v) ==
    [ BlockIdle EXCEPT !.op = op, !.slot = i, !.key = k, !.value = v,
                       !.fresh = ~IsOccupied(i),
                       !.calls = IF overlap THEN bt[t].calls + 1 ELSE 0 ]

\* Line 61-63: the readable bit is set: return false; else go on to line 64.
Block_Insert_Test(t, i, k, v) ==
    /\ BlockMayCall(t)
    /\ bt' = [bt EXCEPT ![t] =
                 IF IsReadable(i)
                 THEN [BlockCall(t, "Insert", i, k, v) EXCEPT !.ok = FALSE]
                 ELSE [BlockCall(t, "Insert", i, k, v) EXCEPT !.pc = "ins_occupied"]]
    /\ UNCHANGED << occupied_, readable_, array_, not_block_vars >>

\* Line 64: SET_N_TH_BIT(occupied_, bucket_ind);
Block_Insert_Occupied(t) ==
    /\ bt[t].pc = "ins_occupied"
    /\ occupied_' = SET_N_TH_BIT(occupied_, bt[t].slot)
    /\ bt' = [bt EXCEPT ![t].pc = "ins_readable"]
    /\ UNCHANGED << readable_, array_, not_block_vars >>

\* Line 65: SET_N_TH_BIT(readable_, bucket_ind);
Block_Insert_Readable(t) ==
    /\ bt[t].pc = "ins_readable"
    /\ readable_' = SET_N_TH_BIT(readable_, bt[t].slot)
    /\ bt' = [bt EXCEPT ![t].pc = "ins_key"]
    /\ UNCHANGED << occupied_, array_, not_block_vars >>

\* Line 66, first half: array_[bucket_ind].first = key (the pair is assigned member
\* by member, under no lock).
Block_Insert_Key(t) ==
    /\ bt[t].pc = "ins_key"
    /\ array_' = [array_ EXCEPT ![bt[t].slot] = << bt[t].key, @[2] >>]
    /\ bt' = [bt EXCEPT ![t].pc = "ins_value"]
    /\ UNCHANGED << occupied_, readable_, not_block_vars >>

\* Lines 66-67: array_[bucket_ind].second = value; return true;
Block_Insert_Value(t) ==
    /\ bt[t].pc = "ins_value"
    /\ array_' = [array_ EXCEPT ![bt[t].slot] = << @[1], bt[t].value >>]
    /\ bt' = [bt EXCEPT ![t].pc = "idle", ![t].ok = TRUE]
    /\ UNCHANGED << occupied_, readable_, not_block_vars >>

\* Lines 71-73: Remove: UNSET_N_TH_BIT(readable_, bucket_ind). The calls of other
\* threads on the slot are marked as having had a Remove come in between.
Block_Remove(t, i) ==
    /\ BlockMayCall(t)
    /\ readable_' = UNSET_N_TH_BIT(readable_, i)
    /\ bt' = [u \in Threads |->
                 IF u = t THEN BlockCall(t, "Remove", i, 0, 0)
                 ELSE IF bt[u].slot = i /\ bt[u].op \in {"Insert", "Get"}
                      THEN [bt[u] EXCEPT !.stale = TRUE]
                      ELSE bt[u]]
    /\ UNCHANGED << occupied_, array_, not_block_vars >>

\* Lines 76-78: IsOccupied(bucket_ind), the answer in ok.
Block_IsOccupied(t, i) ==
    /\ BlockMayCall(t)
    /\ bt' = [bt EXCEPT ![t] = [BlockCall(t, "IsOccupied", i, 0, 0)
                                   EXCEPT !.ok = IsOccupied(i)]]
    /\ UNCHANGED << occupied_, readable_, array_, not_block_vars >>

\* A reader of slot i: lines 81-83, IsReadable(bucket_ind); when it is readable the
\* reader goes on to KeyAt and ValueAt.
Block_Get_Readable(t, i) ==
    /\ BlockMayCall(t)
    /\ bt' = [bt EXCEPT ![t] = [BlockCall(t, "Get", i, 0, 0)
                                   EXCEPT !.readable = IsReadable(i),
                                          !.pc = IF IsReadable(i) THEN "get_key"
                                                 ELSE "idle"]]
    /\ UNCHANGED << occupied_, readable_, array_, not_block_vars >>

\* Lines 46-48: KeyAt(bucket_ind)
Block_Get_Key(t) ==
    /\ bt[t].pc = "get_key"
    /\ bt' = [bt EXCEPT ![t].key = KeyAt(bt[t].slot), ![t].pc = "get_value"]
    /\ UNCHANGED << occupied_, readable_, array_, not_block_vars >>

\* Lines 51-53: ValueAt(bucket_ind)
Block_Get_Value(t) ==
    /\ bt[t].pc = "get_value"
    /\ bt' = [bt EXCEPT ![t].value = ValueAt(bt[t].slot), ![t].pc = "idle",
                        ![t].ok = TRUE]
    /\ UNCHANGED << occupied_, readable_, array_, not_block_vars >>

BlockNext ==
    \E t \in Threads :
        \/ \E i \in Slots, k \in Keys, v \in Values : Block_Insert_Test(t, i, k, v)
        \/ Block_Insert_Occupied(t)
        \/ Block_Insert_Readable(t)
        \/ Block_Insert_Key(t)
        \/ Block_Insert_Value(t)
        \/ \E i \in Slots : Block_Remove(t, i)
        \/ \E i \in Slots : Block_IsOccupied(t, i)
        \/ \E i \in Slots : Block_Get_Readable(t, i)
        \/ Block_Get_Key(t)
        \/ Block_Get_Value(t)

\* Threads working on one block page concurrently.
BlockSpec == Init /\ [][BlockNext]_vars

\* One thread working on the block page, a call at a time.
BlockSeqSpec == SeqInit /\ [][BlockNext]_vars

\* ================================================================= claims

\* Frame f holds a page the page table maps to it.
Resident(f) == page_id[f] \in Pages /\ page_table[page_id[f]] = f

\* The frames the replacer marks present.
Present == {f \in Frames : clock[f].first}

\* The thread is inside ReplaceAndUpdate, on a frame it took from the replacer.
Reclaiming(t) ==
    /\ th[t].pc \in {"rau_wlatch", "rau_wb", "rau_load", "rau_page_id", "rau_pin_count",
                     "rau_is_dirty"}
    /\ ~th[t].from_free

\* The bytes of page p: in its frame when it is resident, else on disk.
Content(p) == IF page_table[p] # NoFrame THEN data[page_table[p]] ELSE disk[p]

\* C1: between non-overlapping operations the replacer's present set is exactly
\* the set of resident frames with pin_count 0, and the frame a FetchPage or
\* NewPage takes from the replacer is one whose pin_count is 0 (a pinned frame is
\* never the victim, so its page is not evicted).
C1_ReplacerIsUnpinnedResident ==
    /\ AllIdle => Present = {f \in Frames : Resident(f) /\ pin_count[f] = 0}
    /\ \A t \in Threads :
          (Reclaiming(t) /\ th[t].pc = "rau_wlatch") => pin_count[th[t].index] = 0
    /\ \A t \in Threads, f \in Frames :
          (Reclaiming(t) /\ pin_count[f] > 0 /\ f # th[t].index)
             => Resident(f) /\ th[t].old_page # page_id[f]

\* C1 witness: a NewPage took its frame from the replacer while the other frame,
\* pinned, kept its page.
C1_Witness ==
    /\ AllIdle /\ ~overlap
    /\ th["t1"].op = "NewPage" /\ th["t1"].ptr # NoFrame /\ ~th["t1"].from_free
    /\ \E f \in Frames : f # th["t1"].ptr /\ pin_count[f] > 0 /\ Resident(f)

\* C5: between non-overlapping operations, frames with a page plus the free list
\* make pool_size; the free list has no duplicates, and its frames have pin_count 0
\* and page_id INVALID_PAGE_ID.
C5_FreeListAccounting ==
    AllIdle =>
       /\ Cardinality({f \in Frames : page_id[f] # INVALID_PAGE_ID}) + Len(free_list)
             = PoolSize
       /\ \A i, j \in 1 .. Len(free_list) : free_list[i] = free_list[j] => i = j
       /\ \A i \in 1 .. Len(free_list) :
             pin_count[free_list[i]] = 0 /\ page_id[free_list[i]] = INVALID_PAGE_ID

\* C5 witness: DeletePage has put a used frame back on the free list, behind a frame
\* that was never used.
C5_Witness ==
    /\ AllIdle /\ ~overlap
    /\ th["t1"].op = "DeletePage" /\ th["t1"].index # NoFrame
    /\ Len(free_list) = 2 /\ free_list[2] = th["t1"].index
    /\ next_page_id > 0


\* Thread t makes a call in this step.
Calls(t) == th'[t].calls = th[t].calls + 1

\* C3: when a FetchPage or NewPage reclaims a dirty frame, the disk holds the
\* frame's old bytes under the old page id as soon as the frame's bytes or its
\* page_id differ from what they were, and at the return; and between
\* non-overlapping operations a page holds the bytes it had when it was last
\* unpinned dirty (in its frame, or on disk once evicted) until a client writes to
\* it or it is deleted, so a FetchPage of the evicted page returns them.
C3_DirtyWrittenBeforeOverwrite ==
    /\ \A t \in Threads :
          ( /\ th[t].op \in {"FetchPage", "NewPage"}
            /\ th[t].index # NoFrame /\ ~th[t].from_free /\ th[t].old_dirty
            /\ \/ th[t].pc = "idle"
               \/ data[th[t].index] # th[t].old_bytes
               \/ page_id[th[t].index] # th[t].old_page )
          => disk[th[t].old_page] = th[t].old_bytes
    /\ AllIdle => \A p \in Pages : expect[p] \in Data => Content(p) = expect[p]
    /\ \A t \in Threads :
          ( /\ th[t].pc = "idle" /\ th[t].op = "FetchPage" /\ th[t].ptr # NoFrame
            /\ expect[th[t].page] \in Data )
          => data[th[t].ptr] = expect[th[t].page]

\* C3 witness: a FetchPage that reclaimed a dirty frame with non-zero bytes has
\* read back a page that was itself evicted after being unpinned dirty with
\* non-zero bytes.
C3_Witness ==
    /\ AllIdle /\ ~overlap
    /\ th["t1"].op = "FetchPage" /\ th["t1"].index # NoFrame /\ ~th["t1"].from_free
    /\ th["t1"].old_dirty /\ th["t1"].old_bytes # ZeroBytes
    /\ disk[th["t1"].old_page] = th["t1"].old_bytes
    /\ expect[th["t1"].page] \in Data \ {ZeroBytes}
    /\ data[th["t1"].ptr] = expect[th["t1"].page]

\* C6: DeletePage returns false if and only if the page is resident with
\* pin_count > 0; when it deleted the page, or the page was not resident, it
\* returns true.
C6_DeleteReturnsFalseIffPinned ==
    \A t \in Threads :
        (~overlap /\ th[t].pc = "idle" /\ th[t].op = "DeletePage")
        => ( th[t].ok = FALSE
               <=> ( page_table[th[t].page] # NoFrame
                     /\ pin_count[page_table[th[t].page]] > 0 ) )

\* C7: with the free list empty and every frame pinned, a FetchPage of a page that
\* is not resident and a NewPage return null at once (NewPage with its output id
\* INVALID_PAGE_ID) and change nothing of the pool, the replacer or the disk: no
\* page id is allocated.
C7_ExhaustedReturnsNull ==
    [][ \A t \in Threads :
          ( /\ Calls(t)
            /\ free_list = << >>
            /\ \A f \in Frames : pin_count[f] > 0
            /\ \/ th'[t].op = "NewPage"
               \/ th'[t].op = "FetchPage" /\ page_table[th'[t].page] = NoFrame )
          => /\ th'[t].pc = "idle"
             /\ th'[t].ptr = NoFrame
             /\ th'[t].op = "NewPage" => th'[t].out = INVALID_PAGE_ID
             /\ pool_vars' = pool_vars ]_vars

\* C7 witness: NewPage has returned null with both frames pinned, two page ids
\* having been allocated.
C7_Witness ==
    /\ AllIdle /\ ~overlap
    /\ th["t1"].op = "NewPage" /\ th["t1"].ptr = NoFrame
    /\ th["t1"].out = INVALID_PAGE_ID
    /\ free_list = << >> /\ \A f \in Frames : pin_count[f] > 0
    /\ next_page_id = PoolSize

\* C8: UnpinPage of a resident page returns false and changes nothing when the
\* pin count is 0; otherwise it returns true, takes one off the pin count, puts the
\* frame into the replacer exactly when the count reaches 0, and ORs is_dirty into
\* the dirty flag. The pin count is never negative.
C8_UnpinEffect ==
    /\ [](\A f \in Frames : pin_count[f] >= 0)
    /\ [][ \A t \in Threads :
             (Calls(t) /\ th'[t].op = "UnpinPage")
             => LET f == page_table[th'[t].page]
                IN IF pin_count[f] = 0
                   THEN th'[t].ok = FALSE /\ pool_vars' = pool_vars
                   ELSE /\ th'[t].ok = TRUE
                        /\ pin_count' = [pin_count EXCEPT ![f] = @ - 1]
                        /\ f \notin Present
                        /\ Present' = IF pin_count[f] = 1 THEN Present \cup {f}
                                      ELSE Present
                        /\ is_dirty' = [is_dirty EXCEPT ![f] = @ \/ th'[t].dirty]
                        /\ UNCHANGED << page_id, data, page_table, free_list, disk,
                                        next_page_id >> ]_vars

\* C8 witness: a dirty frame was unpinned with is_dirty false: it is still dirty,
\* its count has reached 0 and it is in the replacer.
C8_Witness ==
    /\ AllIdle /\ ~overlap
    /\ th["t1"].op = "UnpinPage" /\ th["t1"].ok /\ ~th["t1"].dirty
    /\ is_dirty[th["t1"].index] /\ pin_count[th["t1"].index] = 0
    /\ th["t1"].index \in Present

\* C9 as stated: FlushPage of a page that is not resident returns false; of a
\* resident page it returns true, and on return the frame is clean and the disk
\* copy of the page equals the frame's bytes.
C9_FlushLeavesDiskEqual ==
    \A t \in Threads :
        (~overlap /\ th[t].pc = "idle" /\ th[t].op = "FlushPage")
        => IF th[t].index = NoFrame
           THEN th[t].ok = FALSE
           ELSE /\ th[t].ok = TRUE
                /\ ~is_dirty[th[t].index]
                /\ disk[th[t].page] = data[th[t].index]

\* C9 amended: FlushPage of a page that is not resident returns false and changes
\* nothing. Of a resident page it returns true and no step of it changes a pin
\* count, a page id, the frame bytes, the page table, the free list or the
\* replacer; on return the frame is clean; if it was dirty its bytes were written
\* to the disk copy of the page, and if it was clean nothing was written.
C9_FlushEffect ==
    [][ \A t \in Threads :
          (th'[t] # th[t] /\ th'[t].op = "FlushPage")
          => /\ UNCHANGED << page_id, pin_count, data, page_table, free_list, clock, hand,
                             size, next_page_id >>
             /\ (Calls(t) /\ page_table[th'[t].page] = NoFrame)
                   => /\ th'[t].pc = "idle" /\ th'[t].ok = FALSE
                      /\ pool_vars' = pool_vars
             /\ (Calls(t) /\ page_table[th'[t].page] # NoFrame)
                   => th'[t].pc # "idle" /\ th'[t].index = page_table[th'[t].page]
             /\ th'[t].pc # "idle" => disk' = disk /\ is_dirty' = is_dirty
             /\ (~Calls(t) /\ th'[t].pc = "idle")
                   => LET f == th[t].index
                      IN /\ th'[t].ok = TRUE
                         /\ is_dirty' = [is_dirty EXCEPT ![f] = FALSE]
                         /\ disk' = IF is_dirty[f]
                                    THEN [disk EXCEPT ![th[t].page] = data[f]]
                                    ELSE disk ]_vars

\* C9 witness: FlushPage has returned true for a frame with non-zero bytes, which
\* the disk now holds.
C9_Witness ==
    /\ AllIdle /\ ~overlap
    /\ th["t1"].op = "FlushPage" /\ th["t1"].ok /\ th["t1"].index # NoFrame
    /\ data[th["t1"].index] # ZeroBytes
    /\ disk[th["t1"].page] = data[th["t1"].index]
    /\ ~is_dirty[th["t1"].index]
    /\ pin_count[th["t1"].index] = 0

\* C10: a successful NewPage returns a frame of zero bytes with pin_count 1 and
\* is_dirty true, holding the new page id; and between non-overlapping operations
\* a page made by NewPage holds zero bytes (in its frame, or on disk once evicted)
\* until a client writes to it or it is deleted, so a FetchPage of it returns zero
\* bytes.
C10_NewPageIsZero ==
    /\ \A t \in Threads :
          (~overlap /\ th[t].pc = "idle" /\ th[t].op = "NewPage" /\ th[t].ptr # NoFrame)
          => /\ data[th[t].ptr] = ZeroBytes
             /\ pin_count[th[t].ptr] = 1
             /\ is_dirty[th[t].ptr]
             /\ page_id[th[t].ptr] = th[t].out
    /\ AllIdle => \A p \in Pages : expect[p] = Fresh => Content(p) = ZeroBytes
    /\ \A t \in Threads :
          ( /\ th[t].pc = "idle" /\ th[t].op = "FetchPage" /\ th[t].ptr # NoFrame
            /\ expect[th[t].page] = Fresh )
          => data[th[t].ptr] = ZeroBytes

\* C10 witness: a FetchPage has read back, into a frame taken from the replacer, a
\* page made by NewPage that no client wrote to, while the disk holds non-zero
\* bytes of another page.
C10_Witness ==
    /\ AllIdle /\ ~overlap
    /\ th["t1"].op = "FetchPage" /\ th["t1"].index # NoFrame /\ ~th["t1"].from_free
    /\ expect[th["t1"].page] = Fresh
    /\ data[th["t1"].ptr] = ZeroBytes
    /\ th["t1"].old_bytes # ZeroBytes
    /\ \E q \in Pages : disk[q] # ZeroBytes

\* C2: with calls overlapping, whenever no call is in progress the page table
\* holds (p, f) exactly when frame f has page_id p, and no two entries map to the
\* same frame.
C2_PageTableFidelity ==
    AllIdle =>
       /\ \A p \in Pages, f \in Frames : page_table[p] = f <=> page_id[f] = p
       /\ \A p, q \in Pages :
             (p # q /\ page_table[p] # NoFrame) => page_table[p] # page_table[q]

\* C4: when one thread's FetchPage(p) read p in and another thread's FetchPage(p)
\* found p while it was being read in, then once both have returned they hold the
\* same frame, its pin_count is 2 and it is not in the replacer.
C4_TwoFetchesTwoPins ==
    AllIdle =>
       \A a, b \in Threads, p \in Pages, f, g \in Frames :
          (<<p, f, "miss">> \in held[a] /\ <<p, g, "hit_loading">> \in held[b])
          => f = g /\ pin_count[f] = 2 /\ f \notin Present

\* The slots the replacer marks present, whatever its number of slots.
PresentSlots == {f \in DOMAIN clock : clock[f].first}

\* C11: Victim returns false and leaves the replacer as it is exactly when no slot
\* is present (size = 0). Otherwise it returns true with the first slot, in cyclic
\* order from the hand, that is present with its ref bit clear once the ref bit of
\* every present slot passed over has been cleared: the victim's present bit is
\* cleared, size goes down by one, no other present bit changes, and the ref bits
\* cleared are those of the present slots passed over.
C11_VictimContract ==
    [][ last'.op = "Victim" =>
          LET n == ClockSize(clock)
              Slot(k) == (hand + k) % n
              Hit(k) == clock[Slot(k)].first /\ (~clock[Slot(k)].second \/ k >= n)
              hits == {k \in 0 .. (2 * n - 1) : Hit(k)}
          IN /\ (size = 0) <=> (PresentSlots = {})
             /\ last'.found <=> (size # 0)
             /\ IF size = 0
                THEN clock' = clock /\ hand' = hand /\ size' = size
                ELSE /\ hits # {}
                     /\ LET k == CHOOSE j \in hits : \A i \in hits : j <= i
                            f == Slot(k)
                            Passed(g) == \E j \in 0 .. (k - 1) :
                                            Slot(j) = g /\ clock[g].first
                        IN /\ last'.frame = f
                           /\ size' = size - 1
                           /\ \A g \in DOMAIN clock :
                                 /\ clock'[g].first = (clock[g].first /\ g # f)
                                 /\ clock'[g].second = (clock[g].second /\ ~Passed(g)) ]_vars

\* C11 witness: Victim went once round, clearing ref bits, and returned a slot on
\* its second pass while another slot stays present.
C11_Witness ==
    /\ last.op = "Victim" /\ last.found
    /\ last.inspected > ClockSize(clock)
    /\ size >= 1

\* C14: after Victim returns true with frame f the hand is at (f + 1) mod
\* num_pages, one past the victim.
C14_HandPastVictim ==
    (last.op = "Victim" /\ last.found) => hand = (last.frame + 1) % ClockSize(clock)

\* C15: size is the number of present slots, which every Pin, Unpin and Victim
\* keeps (Unpin of a present frame and Pin of an absent frame leave size as it
\* is); Victim returns at once when size is 0, and otherwise returns a victim
\* after inspecting at most 2 * num_pages slots.
C15_VictimTerminates ==
    /\ [](size = Cardinality(PresentSlots))
    /\ [](last.op = "Victim" =>
             IF last.found
             THEN /\ last.frame \in DOMAIN clock
                  /\ last.inspected >= 1
                  /\ last.inspected <= 2 * ClockSize(clock)
             ELSE last.inspected = 0)
    /\ [][ /\ last'.op = "Victim" => (last'.found <=> size > 0)
           /\ (last'.op = "Unpin" /\ clock[last'.frame].first) => size' = size
           /\ (last'.op = "Pin" /\ ~clock[last'.frame].first) => size' = size ]_vars

\* C15 witness: a Victim that inspected 2 * num_pages slots before it returned.
C15_Witness ==
    /\ last.op = "Victim" /\ last.found
    /\ last.inspected = 2 * ClockSize(clock)


\* ---- block page, one thread

\* the block-page call thread t1 starts or finishes in this step
BlockStarts(op) == bt["t1"].pc = "idle" /\ bt'["t1"] # bt["t1"] /\ bt'["t1"].op = op
BlockReturns(op) == bt'["t1"].pc = "idle" /\ bt'["t1"] # bt["t1"] /\ bt'["t1"].op = op

\* Insert(i, k, v) returns false, with nothing changed, exactly when slot i is
\* readable, and is otherwise on its way to storing the pair.
InsertRefusal ==
    BlockStarts("Insert") =>
        IF IsReadable(bt'["t1"].slot)
        THEN /\ bt'["t1"].pc = "idle" /\ ~bt'["t1"].ok
             /\ UNCHANGED << occupied_, readable_, array_ >>
        ELSE bt'["t1"].pc # "idle"

\* Insert(i, k, v) returning true leaves slot i readable and occupied, holding k, v.
InsertStores ==
    (BlockReturns("Insert") /\ bt'["t1"].ok) =>
        /\ GET_N_TH_BIT(readable_', bt'["t1"].slot) /\ GET_N_TH_BIT(occupied_', bt'["t1"].slot)
        /\ array_'[bt'["t1"].slot][1] = bt'["t1"].key
        /\ array_'[bt'["t1"].slot][2] = bt'["t1"].value

\* Remove(i) clears the readable bit of slot i and nothing else.
RemoveClearsReadableOnly ==
    BlockStarts("Remove") =>
        /\ ~GET_N_TH_BIT(readable_', bt'["t1"].slot)
        /\ UNCHANGED << occupied_, array_ >>

\* No step clears an occupied bit, and a step of a call on slot i leaves the bits
\* and the pair of every other slot as they were.
OtherSlotsKept ==
    \A j \in Slots :
        /\ IsOccupied(j) => GET_N_TH_BIT(occupied_', j)
        /\ j # bt'["t1"].slot =>
               /\ GET_N_TH_BIT(occupied_', j) = IsOccupied(j)
               /\ GET_N_TH_BIT(readable_', j) = IsReadable(j)
               /\ array_'[j] = array_[j]

ReadableIsOccupied == \A j \in Slots : IsReadable(j) => IsOccupied(j)

InsertDone(t) == bt[t].op = "Insert" /\ bt[t].pc = "idle" /\ ~bt[t].stale

\* C13: of the Inserts that threads made on the same slot with no Remove in
\* between, at most one has returned true, and the slot holds the pair of the one
\* that did.
C13_InsertClaimsSlotOnce ==
    \A t \in Threads : \A u \in Threads \ {t} :
        (InsertDone(t) /\ InsertDone(u) /\ bt[t].slot = bt[u].slot) =>
            /\ ~(bt[t].ok /\ bt[u].ok)
            /\ bt[t].ok => array_[bt[t].slot] = << bt[t].key, bt[t].value >>

\* C19: a reader that found a slot readable while another thread's Insert(i, k, v)
\* on the never-used slot i was past its readable test, with no Remove of slot i,
\* has read k and v.
C19_ReadableImpliesWritten ==
    \A t \in Threads : \A u \in Threads \ {t} :
        ( /\ bt[t].op = "Insert" /\ bt[t].fresh /\ ~bt[t].stale
          /\ bt[t].pc # "idle" \/ bt[t].ok
          /\ bt[u].op = "Get" /\ bt[u].slot = bt[t].slot /\ ~bt[u].stale
          /\ bt[u].pc = "idle" /\ bt[u].readable ) =>
            /\ bt[u].key = bt[t].key
            /\ bt[u].value = bt[t].value


\* ---- frames in flight

\* Thread t has a frame in flight: it took the frame in ReplaceAndUpdate, has
\* released latch_ and has not yet finished the frame's metadata.
InFlight(t) ==
    th[t].pc \in {"rau_wb", "rau_load", "rau_page_id", "rau_pin_count", "rau_is_dirty"}

\* Thread t was given its frame by the replacer's Victim and has not returned.
TookVictim(t) == Reclaiming(t)

\* C16: a frame that a thread has in flight in ReplaceAndUpdate is not present in
\* the replacer and is not a frame that Victim gave to another thread, whatever
\* FetchPage, NewPage, UnpinPage and DeletePage calls overlap.
C16_InFlightNotVictim ==
    \A t \in Threads :
        InFlight(t) =>
            /\ th[t].index \notin Present
            /\ \A u \in Threads \ {t} : ~(TookVictim(u) /\ th[u].index = th[t].index)


\* ---- disk calls and latch_

\* The next step of thread t calls ReadPage or WritePage: lines 65, 53 and 68, 141,
\* 209.
DiskCall(t) ==
    \/ th[t].pc = "rau_wb" /\ is_dirty[th[t].index]
    \/ th[t].pc = "rau_load" /\ ~th[t].new_page
    \/ th[t].pc = "flush_write" /\ FlushNeeded(th[t].index)
    \/ /\ th[t].pc = "flush_all" /\ th[t].index < PoolSize
       /\ page_id[th[t].index] # INVALID_PAGE_ID /\ is_dirty[th[t].index]

\* C17, as stated: no thread calls ReadPage or WritePage while it holds latch_.
C17_NoDiskCallUnderLatch ==
    \A t \in Threads : DiskCall(t) => latch # t

\* C17, amended: FetchPage, NewPage and FlushPage call ReadPage and WritePage only
\* after the thread has released latch_ (DeletePage calls neither); FlushAllPages
\* holds latch_ at every WritePage it calls.
C17_DiskCallsAndLatch ==
    \A t \in Threads :
        DiskCall(t) =>
            IF th[t].op = "FlushAllPages" THEN latch = t ELSE latch # t

\* One thread is about to read a page in for FetchPage, its latch_ released, while
\* another is about to write a frame in FlushAllPages.
C17_Witness ==
    \E t \in Threads, u \in Threads :
        /\ DiskCall(t) /\ th[t].op = "FetchPage" /\ th[t].pc = "rau_load"
        /\ DiskCall(u) /\ th[u].op = "FlushAllPages"


\* ---- FlushAllPages against a replacement

\* This step is a turn of thread t's FlushAllPages loop that writes frame i.
FlushAllWrites(t, i) ==
    /\ th[t].pc = "flush_all" /\ th[t].index = i /\ i < PoolSize
    /\ th'[t].pc = "flush_all" /\ th'[t].index = i + 1
    /\ page_id[i] # INVALID_PAGE_ID /\ is_dirty[i]

\* Thread u is replacing the page of frame i: it has written the evicted page
\* back and loaded the bytes of its own page, and page_id_ is still the evicted
\* page's.
LoadedOver(u, i) ==
    /\ th[u].pc = "rau_page_id" /\ th[u].index = i /\ ~th[u].from_free
    /\ page_id[i] = th[u].old_page /\ th[u].page # th[u].old_page
    /\ data[i] # th[u].old_bytes

\* C20: FlushAllPages never writes a frame under the id of the page evicted from
\* it once the frame holds the bytes of the page that replaces it.
C20_FlushAllWritesOwnPage ==
    [][\A t \in Threads : \A i \in Frames :
          FlushAllWrites(t, i) => ~\E u \in Threads \ {t} : LoadedOver(u, i)]_vars


\* ---- lock order and progress

\* The frame latches thread t holds.
FrameLatches(t) == {f \in Frames : wlatch[f] = t}

\* Thread t is at a page->WLatch() call: lines 50 and 61, 138, 180.
AtWLatch(t) == th[t].pc \in {"rau_wlatch", "flush_wlatch", "delete_wlatch"}

\* A thread asks for a frame latch only while it holds latch_ and no other frame
\* latch, asks for latch_ (at the start of a call) holding no frame latch, and
\* holds at most one frame latch.
LockOrder ==
    \A t \in Threads :
        /\ Cardinality(FrameLatches(t)) <= 1
        /\ AtWLatch(t) => latch = t /\ FrameLatches(t) = {}
        /\ th[t].pc = "idle" => FrameLatches(t) = {}

\* The steps by which thread t goes on with the call it is in.
Continue(t) ==
    \/ RAU_WLatch(t) \/ RAU_WriteBack(t) \/ RAU_Load(t) \/ RAU_SetPageId(t)
    \/ RAU_SetPinCount(t) \/ RAU_Return(t)
    \/ FlushPage_WLatch(t) \/ FlushPage_Write(t)
    \/ DeletePage_Pinned(t) \/ DeletePage_Remove(t) \/ DeletePage_Reset(t)
    \/ DeletePage_Return(t)
    \/ FlushAll_Step(t) \/ FlushAll_Return(t)

\* Thread t, in a call, can take its next step, or waits for a frame latch whose
\* holder can take its next step.
Progresses(t) ==
    \/ ENABLED Continue(t)
    \/ \E u \in Threads \ {t} :
          AtWLatch(t) /\ wlatch[th[t].index] = u /\ ENABLED Continue(u)

\* C18: the threads keep the lock order, and no thread that is in a call is
\* stuck: each can go on, or waits for a frame latch whose holder can go on, so
\* that under a fair scheduler every call returns.
C18_LockOrderNoThreadStuck ==
    /\ LockOrder
    /\ \A t \in Threads : th[t].pc # "idle" => Progresses(t)

\* What remains of C18 in the code: the lock order is kept, and a thread is stuck
\* only after an UnpinPage has read through page_table_.end().
LockOrderStuckOnlyUndefined ==
    /\ LockOrder
    /\ \A t \in Threads : (th[t].pc # "idle" /\ ~ub) => Progresses(t)

====
